---------------------------- MODULE Spec2Model ----------------------------
(***************************************************************************)
(* Model of quantecon/inequality.py: lorenz_curve, gini_coefficient and    *)
(* shorrocks_index.                                                        *)
(*                                                                         *)
(* Spec runs one call of one of the three functions on an argument drawn   *)
(* by Init; the functions are operators computed as the source computes    *)
(* them.  SpecPar runs gini_coefficient on its parallel loop, one read or  *)
(* write of i_sum per step.                                                *)
(*                                                                         *)
(* Numbers.  The inputs are integer-valued (vectors) or multiples of       *)
(* 1/Scale (matrices).  A float is modelled by the exact rational it       *)
(* holds, a pair <<num, den>> in lowest terms with den > 0.  The IEEE      *)
(* specials a numpy division by zero produces are the pairs with den = 0:  *)
(* <<1,0>> is +inf, <<-1,0>> is -inf and <<0,0>> is nan.                   *)
(* For the integer inputs used every intermediate sum is exact in a        *)
(* float64, and each function performs one division per returned number,   *)
(* so the returned float is the correctly rounded value of the rational    *)
(* the model holds.  For the matrix entries k/Scale the model abstracts    *)
(* the rounding of the diagonal sum.                                       *)
(***************************************************************************)
EXTENDS Integers, Sequences, FiniteSets, TLC

VARIABLES fn, pc, y, A, error_model, ret, diag_sum, i_sum, todo, wk

vars == <<fn, pc, y, A, error_model, ret, diag_sum, i_sum, todo, wk>>

(***************************************************************************)
(* Bounds of the model.                                                    *)
(***************************************************************************)
MaxLen == 3        \* longest observation vector of a sequential call
MaxVal == 2        \* observations range over -MaxVal..MaxVal
MaxDim == 2        \* matrices have 1..MaxDim rows and 1..MaxDim columns
Scale == 2         \* matrix entries are 0/Scale, 1/Scale, ..., Scale/Scale
ParMaxLen == 3     \* longest vector of a call run on the parallel loop
ParMaxVal == 1     \* its observations range over 0..ParMaxVal
ParWorkers == 2    \* worker threads of the parallel loop

(***************************************************************************)
(* Rational arithmetic standing for float64 arithmetic.                    *)
(***************************************************************************)
Abs(a) == IF a < 0 THEN -a ELSE a

Sign(a) == IF a > 0 THEN 1 ELSE IF a < 0 THEN -1 ELSE 0

RECURSIVE Gcd(_, _)
Gcd(a, b) == IF b = 0 THEN a ELSE Gcd(b, a % b)

\* the float holding num/den (den # 0), or the special a zero den produces
Norm(num, den) ==
    IF den = 0 THEN <<Sign(num), 0>>
    ELSE LET g == Gcd(Abs(num), Abs(den))
         IN  <<(Sign(den) * num) \div g, Abs(den) \div g>>

Q(k) == <<k, 1>>

QSub(a, b) == Norm(a[1] * b[2] - b[1] * a[2], a[2] * b[2])

QAdd(a, b) == Norm(a[1] * b[2] + b[1] * a[2], a[2] * b[2])

\* a / b of two finite floats with numpy semantics: x/0 is +-inf, 0/0 is nan
TrueDiv(a, b) == Norm(a[1] * b[2], a[2] * b[1])

(***************************************************************************)
(* Outcomes of a call: a returned value or a raised exception.             *)
(***************************************************************************)
Return(v) == [kind |-> "return", exc |-> "", value |-> v]

Raise(e) == [kind |-> "raise", exc |-> e, value |-> <<>>]

NoRet == [kind |-> "none", exc |-> "", value |-> <<>>]

(***************************************************************************)
(* Division by zero inside an @njit function.  numba's error_model is      *)
(* "python" unless the decorator says otherwise: a zero divisor raises     *)
(* ZeroDivisionError.  The same source run with the JIT disabled (or       *)
(* compiled with error_model "numpy") yields nan or +-inf instead.  The    *)
(* error model of a jitted function is fixed before the call and drawn     *)
(* from this set.  shorrocks_index is not jitted: its division is one of   *)
(* numpy scalars, which has the "numpy" behaviour.                         *)
(***************************************************************************)
ErrorModels == {"python", "numpy"}

(***************************************************************************)
(* Arrays are functions on 0..n-1, indexed as in the source.               *)
(***************************************************************************)
len(a) == Cardinality(DOMAIN a)

Arr(seq) == [k \in 0..(Len(seq) - 1) |-> seq[k + 1]]

RECURSIVE Insert(_, _)
Insert(seq, v) ==
    IF seq = <<>> THEN <<v>>
    ELSE IF v < seq[Len(seq)] THEN Append(Insert(SubSeq(seq, 1, Len(seq) - 1), v), seq[Len(seq)])
    ELSE Append(seq, v)

RECURSIVE SortPrefix(_, _)
SortPrefix(a, k) == IF k = 0 THEN <<>> ELSE Insert(SortPrefix(a, k - 1), a[k - 1])

np_sort_Missing(a) == a

\* np.sort(y): a new array holding the entries of y in ascending order
np_sort(a) == Arr(SortPrefix(a, len(a)))

RECURSIVE SumTo(_, _)
SumTo(a, k) == IF k < 0 THEN 0 ELSE SumTo(a, k - 1) + a[k]

\* np.cumsum(y)
np_cumsum(a) == [k \in DOMAIN a |-> SumTo(a, k)]

np_sum_SkipsLast(a) == SumTo(a, len(a) - 2)

\* np.sum(y), 0 for the empty array
np_sum(a) == SumTo(a, len(a) - 1)

(***************************************************************************)
(* lorenz_curve(y)                                                         *)
(***************************************************************************)
CumPeople_LengthOfResult(i, n) == TrueDiv(Q(i), Q(n + 1))

\* line 54
CumPeople(i, n) == TrueDiv(Q(i), Q(n))

\* line 55
CumIncome(s, i, n) == TrueDiv(Q(s[i]), Q(s[n]))

\* lines 47-56; the loop runs only for n >= 1 and its first division by a
\* zero s[n] raises under the "python" error model
lorenz_curve(y0, em) ==
    LET n == len(y0)
        ys == np_sort(y0)
        s == [k \in 0..n |-> IF k = 0 THEN 0 ELSE np_cumsum(ys)[k - 1]]
        cum_people == [i \in 0..n |-> IF i = 0 THEN Q(0) ELSE CumPeople(i, n)]
        cum_income == [i \in 0..n |-> IF i = 0 THEN Q(0) ELSE CumIncome(s, i, n)]
    IN  IF n >= 1 /\ s[n] = 0 /\ em = "python"
        THEN Raise("ZeroDivisionError")
        ELSE Return(<<cum_people, cum_income>>)

(***************************************************************************)
(* gini_coefficient(y)                                                     *)
(***************************************************************************)
AbsDiff_Signed(a, b) == a - b

\* abs(y[i] - y[j]), line 83
AbsDiff(a, b) == Abs(a - b)

\* the inner loop, lines 82-83, run for j = 0..k-1 from i_sum[i] = 0
RECURSIVE InnerLoop(_, _, _)
InnerLoop(a, i, k) == IF k = 0 THEN 0 ELSE InnerLoop(a, i, k - 1) + AbsDiff(a[i], a[k - 1])

\* i_sum after the outer loop has run every i in turn
SeqISum(a) == [i \in DOMAIN a |-> InnerLoop(a, i, len(a))]

GiniReturn_NoFactorTwo(isum, a, em) ==
    LET den == len(a) * np_sum(a)
    IN  IF den = 0 /\ em = "python"
        THEN Raise("ZeroDivisionError")
        ELSE Return(TrueDiv(Q(np_sum(isum)), Q(den)))

GiniReturn_ZeroNumerator(isum, a, em) ==
    IF np_sum(isum) = 0 /\ em = "python"
    THEN Raise("ZeroDivisionError")
    ELSE Return(TrueDiv(Q(np_sum(isum)), Q(2 * len(a) * np_sum(a))))

\* line 84
GiniReturn(isum, a, em) ==
    LET n == len(a)
        num == np_sum(isum)
        den == 2 * n * np_sum(a)
    IN  IF den = 0 /\ em = "python"
        THEN Raise("ZeroDivisionError")
        ELSE Return(TrueDiv(Q(num), Q(den)))

gini_coefficient(a, em) == GiniReturn(SeqISum(a), a, em)

(***************************************************************************)
(* shorrocks_index(A).  A matrix is [m, n, a]: its shape and its entries,  *)
(* a[<<r, c>>] being the numerator of the entry over Scale.                *)
(***************************************************************************)
Entry(M, r, c) == Norm(M.a[<<r, c>>], Scale)

Min(a, b) == IF a <= b THEN a ELSE b

RECURSIVE DiagSumTo(_, _)
DiagSumTo(M, k) == IF k < 0 THEN Q(0) ELSE QAdd(DiagSumTo(M, k - 1), Entry(M, k, k))

\* np.diag(A).sum(): the main diagonal of a 2-d array has min(m, n) entries
np_diag_sum(M) == DiagSumTo(M, Min(M.m, M.n) - 1)

IsSquare_Unchecked(M) == TRUE

\* line 119
IsSquare(M) == M.m = M.n

\* line 124: numpy scalars, so a zero divisor gives nan or +-inf, no exception
ShorrocksReturn(M, dsum) == Return(TrueDiv(QSub(Q(M.m), dsum), Q(M.m - 1)))

shorrocks_index(M) ==
    IF ~IsSquare(M) THEN Raise("ValueError: A must be a square matrix") ELSE ShorrocksReturn(M, np_diag_sum(M))

(***************************************************************************)
(* The inputs.                                                             *)
(***************************************************************************)
Vals == (-MaxVal)..MaxVal

Vectors == UNION {[0..(n - 1) -> Vals] : n \in 0..MaxLen}

\* the m x n matrices
Matrices(m, n) == {[m |-> m, n |-> n, a |-> a] : a \in [(0..(m - 1)) \X (0..(n - 1)) -> 0..Scale]}

NoMatrix == [m |-> 0, n |-> 0, a |-> <<>>]

Unset == <<>>

(***************************************************************************)
(* Sequential calls: Init draws the function and its argument, the action  *)
(* of that function runs the call to its outcome.                          *)
(***************************************************************************)
Init ==
    /\ pc = "call"
    /\ ret = NoRet
    /\ diag_sum = Unset
    /\ i_sum = <<>>
    /\ todo = {}
    /\ wk = <<>>
    /\ \/ fn = "lorenz_curve" /\ y \in Vectors /\ A = NoMatrix /\ error_model \in ErrorModels
       \/ fn = "gini_coefficient" /\ y \in Vectors /\ A = NoMatrix /\ error_model \in ErrorModels
       \/ /\ fn = "shorrocks_index" /\ y = <<>>
          /\ \E m, n \in 1..MaxDim : A \in Matrices(m, n)
          /\ error_model = "numpy"

Call_lorenz_curve ==
    /\ pc = "call" /\ fn = "lorenz_curve"
    /\ ret' = lorenz_curve(y, error_model)
    /\ pc' = "done"
    /\ UNCHANGED <<fn, y, A, error_model, diag_sum, i_sum, todo, wk>>

Call_gini_coefficient ==
    /\ pc = "call" /\ fn = "gini_coefficient"
    /\ ret' = gini_coefficient(y, error_model)
    /\ pc' = "done"
    /\ UNCHANGED <<fn, y, A, error_model, diag_sum, i_sum, todo, wk>>

Call_shorrocks_index ==
    /\ pc = "call" /\ fn = "shorrocks_index"
    /\ ret' = shorrocks_index(A)
    /\ diag_sum' = IF IsSquare(A) THEN <<np_diag_sum(A)>> ELSE Unset
    /\ pc' = "done"
    /\ UNCHANGED <<fn, y, A, error_model, i_sum, todo, wk>>

Next == Call_lorenz_curve \/ Call_gini_coefficient \/ Call_shorrocks_index

Spec == Init /\ [][Next]_vars

(***************************************************************************)
(* gini_coefficient on its parallel loop (@njit(parallel=True), prange).   *)
(* The iterations i of the outer loop are handed to the worker threads in  *)
(* any order and any grouping: an idle worker takes any iteration not yet  *)
(* started.  Line 83, i_sum[i] += abs(y[i] - y[j]), is a read of the slot  *)
(* followed by a write of it, and other workers' steps may come between.   *)
(***************************************************************************)
ParVectors == UNION {[0..(n - 1) -> 0..ParMaxVal] : n \in 0..ParMaxLen}

Workers == 1..ParWorkers

Idle == [i |-> -1, j |-> 0, stage |-> "idle", acc |-> 0]

Slot_Shared(i) == 0

\* the slot of i_sum that iteration i accumulates into, line 83
Slot(i) == i

InitPar ==
    /\ fn = "gini_coefficient"
    /\ pc = "call"
    /\ y \in ParVectors
    /\ A = NoMatrix
    /\ error_model \in ErrorModels
    /\ ret = NoRet
    /\ diag_sum = Unset
    /\ i_sum = <<>>
    /\ todo = {}
    /\ wk = [w \in Workers |-> Idle]

\* lines 79-80: n = len(y); i_sum = np.zeros(n)
Enter ==
    /\ pc = "call"
    /\ i_sum' = [k \in DOMAIN y |-> 0]
    /\ todo' = DOMAIN y
    /\ pc' = "prange"
    /\ UNCHANGED <<fn, y, A, error_model, ret, diag_sum, wk>>

\* line 81: worker w starts iteration i
Take(w) ==
    /\ pc = "prange" /\ wk[w].stage = "idle"
    /\ \E i \in todo :
          /\ wk' = [wk EXCEPT ![w] = [i |-> i, j |-> 0, stage |-> "load", acc |-> 0]]
          /\ todo' = todo \ {i}
    /\ UNCHANGED <<fn, pc, y, A, error_model, ret, diag_sum, i_sum>>

\* line 83, the read: i_sum[i] + abs(y[i] - y[j])
Load(w) ==
    /\ pc = "prange" /\ wk[w].stage = "load"
    /\ wk' = [wk EXCEPT ![w].acc = i_sum[Slot(wk[w].i)] + AbsDiff(y[wk[w].i], y[wk[w].j]),
                        ![w].stage = "store"]
    /\ UNCHANGED <<fn, pc, y, A, error_model, ret, diag_sum, i_sum, todo>>

\* line 83, the write, then line 82: the next j, or the iteration is over
Store(w) ==
    /\ pc = "prange" /\ wk[w].stage = "store"
    /\ i_sum' = [i_sum EXCEPT ![Slot(wk[w].i)] = wk[w].acc]
    /\ wk' = IF wk[w].j + 1 < len(y)
             THEN [wk EXCEPT ![w].j = wk[w].j + 1, ![w].stage = "load"]
             ELSE [wk EXCEPT ![w] = Idle]
    /\ UNCHANGED <<fn, pc, y, A, error_model, ret, diag_sum, todo>>

\* line 84, once every iteration has finished
Reduce ==
    /\ pc = "prange" /\ todo = {} /\ \A w \in Workers : wk[w].stage = "idle"
    /\ ret' = GiniReturn(i_sum, y, error_model)
    /\ pc' = "done"
    /\ UNCHANGED <<fn, y, A, error_model, diag_sum, i_sum, todo, wk>>

NextPar ==
    \/ Enter
    \/ \E w \in Workers : Take(w) \/ Load(w) \/ Store(w)
    \/ Reduce

SpecPar == InitPar /\ [][NextPar]_vars

(***************************************************************************)
(* Vocabulary of the properties, defined apart from the operators above.   *)
(***************************************************************************)
Done(f) == pc = "done" /\ fn = f

IsFinite(q) == q[2] # 0

\* order of two finite floats
QLeq(a, b) == a[1] * b[2] <= b[1] * a[2]

QLess(a, b) == a[1] * b[2] < b[1] * a[2]

RECURSIVE SetSum(_, _)
SetSum(a, S) ==
    IF S = {} THEN 0
    ELSE LET k == CHOOSE k \in S : TRUE IN a[k] + SetSum(a, S \ {k})

Total(a) == SetSum(a, DOMAIN a)

\* the least sum of i entries of a, which is the sum of its i smallest
SumSmallest(a, i) ==
    LET sums == {SetSum(a, S) : S \in {T \in SUBSET DOMAIN a : Cardinality(T) = i}}
    IN  CHOOSE v \in sums : \A w \in sums : v <= w

Perms(n) == {p \in [0..(n - 1) -> 0..(n - 1)] : \A k, l \in 0..(n - 1) : p[k] = p[l] => k = l}

Permute(a, p) == [k \in DOMAIN a |-> a[p[k]]]

\* the float q holds the ratio num/den (den # 0)
IsRatio(q, num, den) == q[2] > 0 /\ q[1] * den = num * q[2]

NonDecreasing(f, n) == \A i \in 0..(n - 1) : IsFinite(f[i]) /\ IsFinite(f[i + 1]) /\ QLeq(f[i], f[i + 1])

NonNegative(a) == \A k \in DOMAIN a : a[k] >= 0

\* what C1 asks of a returned pair
LorenzShape(r, n) ==
    /\ r.kind = "return"
    /\ DOMAIN r.value[1] = 0..n /\ DOMAIN r.value[2] = 0..n
    /\ r.value[1][0] = Q(0) /\ r.value[2][0] = Q(0)
    /\ r.value[1][n] = Q(1) /\ r.value[2][n] = Q(1)

(***************************************************************************)
(* C1 as stated: for every non-empty y with sum(y) > 0, whatever the signs *)
(* of its entries, lorenz_curve returns two sequences of length len(y)+1   *)
(* that start at 0, end at 1 and are non-decreasing.                       *)
(* Refuted by y = [-1, 2]: cum_income is [0, -1, 1].                       *)
(***************************************************************************)
C1_Original ==
    (Done("lorenz_curve") /\ len(y) >= 1 /\ Total(y) > 0) =>
        /\ LorenzShape(ret, len(y))
        /\ NonDecreasing(ret.value[1], len(y))
        /\ NonDecreasing(ret.value[2], len(y))

(***************************************************************************)
(* C1 amended: for every non-empty y with sum(y) > 0 the two sequences     *)
(* have length len(y)+1, start at 0 and end at 1, and cum_people is        *)
(* non-decreasing; cum_income is non-decreasing when no entry of y is      *)
(* negative.                                                               *)
(***************************************************************************)
C1_LorenzShapeAndMonotone ==
    (Done("lorenz_curve") /\ len(y) >= 1 /\ Total(y) > 0) =>
        /\ LorenzShape(ret, len(y))
        /\ NonDecreasing(ret.value[1], len(y))
        /\ NonNegative(y) => NonDecreasing(ret.value[2], len(y))

C1_Witness ==
    /\ Done("lorenz_curve") /\ len(y) = MaxLen /\ NonNegative(y) /\ Total(y) > 0
    /\ y[0] > y[1]
    /\ ret.kind = "return"
    /\ QLess(ret.value[2][1], ret.value[2][2])

(***************************************************************************)
(* C2: for every y of length n >= 1 with sum(y) # 0 and every i in 1..n,   *)
(* cum_people[i] = i/n and cum_income[i] = (sum of the i smallest entries) *)
(* / sum(y), and every permutation of y gives the same result.             *)
(***************************************************************************)
C2_LorenzValues ==
    (Done("lorenz_curve") /\ len(y) >= 1 /\ Total(y) # 0) =>
        /\ ret.kind = "return"
        /\ \A i \in 1..len(y) :
              /\ IsRatio(ret.value[1][i], i, len(y))
              /\ IsFinite(ret.value[2][i])
              /\ ret.value[2][i][1] * Total(y) = SumSmallest(y, i) * ret.value[2][i][2]
        /\ \A p \in Perms(len(y)) : lorenz_curve(Permute(y, p), error_model) = ret

C2_Witness ==
    /\ Done("lorenz_curve") /\ len(y) = MaxLen /\ Total(y) < 0
    /\ y[0] > y[1] /\ y[1] < 0
    /\ ret.kind = "return"

(***************************************************************************)
(* C3: order-invariance of the Gini coefficient: for every y with          *)
(* sum(y) # 0 and every permutation p, gini_coefficient(y permuted by p)   *)
(* equals gini_coefficient(y).                                             *)
(***************************************************************************)
C3_GiniOrderInvariant ==
    (Done("gini_coefficient") /\ Total(y) # 0) =>
        /\ ret.kind = "return" /\ IsFinite(ret.value)
        /\ \A p \in Perms(len(y)) : gini_coefficient(Permute(y, p), error_model) = ret

C3_Witness ==
    /\ Done("gini_coefficient") /\ len(y) = MaxLen /\ Total(y) # 0
    /\ y[0] # y[1] /\ y[1] # y[2] /\ y[0] # y[2]
    /\ ret.kind = "return" /\ ret.value # Q(0)

(***************************************************************************)
(* C4: for every non-empty y with all entries >= 0 and sum(y) > 0 the      *)
(* returned Gini coefficient lies in the closed interval [0, 1].           *)
(***************************************************************************)
C4_GiniInUnitInterval ==
    (Done("gini_coefficient") /\ len(y) >= 1 /\ NonNegative(y) /\ Total(y) > 0) =>
        /\ ret.kind = "return" /\ IsFinite(ret.value)
        /\ QLeq(Q(0), ret.value) /\ QLeq(ret.value, Q(1))

C4_Witness ==
    /\ Done("gini_coefficient") /\ len(y) = MaxLen /\ NonNegative(y) /\ Total(y) > 0
    /\ ret.kind = "return"
    /\ QLess(Q(0), ret.value) /\ QLess(TrueDiv(Q(1), Q(2)), ret.value)

(***************************************************************************)
(* C5: for every n >= 1 and v > 0, the vector of n-1 zeros and one entry v *)
(* has Gini coefficient exactly (n-1)/n.                                   *)
(***************************************************************************)
OneHolder(a) ==
    /\ len(a) >= 1
    /\ \E k \in DOMAIN a : a[k] > 0 /\ \A l \in DOMAIN a \ {k} : a[l] = 0

C5_GiniMaximalInequality ==
    (Done("gini_coefficient") /\ OneHolder(y)) =>
        ret.kind = "return" /\ IsRatio(ret.value, len(y) - 1, len(y))

C5_Witness ==
    /\ Done("gini_coefficient") /\ OneHolder(y) /\ len(y) = MaxLen /\ y[0] = MaxVal
    /\ ret = Return(<<MaxLen - 1, MaxLen>>)

(***************************************************************************)
(* C6: shorrocks_index on a matrix whose row count differs from its column *)
(* count raises the 'must be a square matrix' ValueError, returns nothing, *)
(* and has not read the diagonal.                                          *)
(***************************************************************************)
C6_ShorrocksShapeError ==
    (Done("shorrocks_index") /\ A.m # A.n) =>
        /\ ret = Raise("ValueError: A must be a square matrix")
        /\ diag_sum = Unset

C6_Witness ==
    /\ Done("shorrocks_index") /\ A.m = 1 /\ A.n = MaxDim
    /\ ret.kind = "raise"

(***************************************************************************)
(* C7 as stated: a zero denominator is surfaced as an error and never as a *)
(* returned value: lorenz_curve(y) and gini_coefficient(y) with            *)
(* sum(y) = 0, and shorrocks_index(A) with a 1x1 matrix A.  Stated for the *)
(* jitted functions under the "python" error model, the one most           *)
(* favourable to the claim.                                                *)
(* Refuted by shorrocks_index([[1]]), which returns nan.                   *)
(***************************************************************************)
ZeroDenominator ==
    \/ fn = "lorenz_curve" /\ error_model = "python" /\ len(y) >= 1 /\ Total(y) = 0
    \/ fn = "gini_coefficient" /\ error_model = "python" /\ Total(y) = 0
    \/ fn = "shorrocks_index" /\ A.m = 1 /\ A.n = 1

C7_ZeroDenominatorRaises ==
    (pc = "done" /\ ZeroDenominator) => ret.kind = "raise"

(***************************************************************************)
(* C8 as stated: gini_coefficient on a vector of length 0 or 1 fails       *)
(* rather than returning a value.  Stated for the "python" error model,    *)
(* the one most favourable to the claim.  Refuted by y = [1]: returns 0.   *)
(***************************************************************************)
C8_Original ==
    (Done("gini_coefficient") /\ error_model = "python" /\ len(y) <= 1) => ret.kind = "raise"

(***************************************************************************)
(* C8 amended: gini_coefficient on a vector of length 0, or of length 1    *)
(* with a zero entry, is the 0/0 case and returns no finite number: it     *)
(* raises ZeroDivisionError under the "python" error model and yields nan  *)
(* under the "numpy" one.  On a vector of length 1 with a non-zero entry   *)
(* it returns 0.                                                           *)
(***************************************************************************)
C8_GiniShortVectors ==
    (Done("gini_coefficient") /\ len(y) <= 1) =>
        IF len(y) = 1 /\ y[0] # 0
        THEN ret = Return(Q(0))
        ELSE IF error_model = "python"
             THEN ret = Raise("ZeroDivisionError")
             ELSE ret = Return(<<0, 0>>)

C8_Witness ==
    /\ Done("gini_coefficient") /\ len(y) = 1 /\ y[0] = MaxVal
    /\ ret = Return(Q(0))

(***************************************************************************)
(* C9 as stated: for every square row-stochastic m x m matrix with m >= 2  *)
(* shorrocks_index(A) lies in the open interval (0, 1).                    *)
(* Refuted by the identity matrix (0) and by [[0,1],[1,0]] (2).            *)
(***************************************************************************)
RowStochastic(M) ==
    \A r \in 0..(M.m - 1) : SetSum([c \in 0..(M.n - 1) |-> M.a[<<r, c>>]], 0..(M.n - 1)) = Scale

C9_ShorrocksInOpenUnitInterval ==
    (Done("shorrocks_index") /\ A.m = A.n /\ A.m >= 2 /\ RowStochastic(A)) =>
        /\ ret.kind = "return" /\ IsFinite(ret.value)
        /\ QLess(Q(0), ret.value) /\ QLess(ret.value, Q(1))

\* what one step of the parallel run may do: leave y alone, write i_sum only
\* at the slot of the iteration the stepping worker is storing, and reach the
\* return only with the sequential sums and the sequential result
C10_Step ==
    /\ y' = y
    /\ pc = "prange" =>
          \A k \in DOMAIN i_sum :
              i_sum'[k] # i_sum[k] =>
                  \E w \in Workers : wk[w].stage = "store" /\ wk[w].i = k /\ wk'[w] # wk[w]
    /\ pc' = "done" =>
          /\ i_sum' = SeqISum(y')
          /\ ret' = gini_coefficient(y', error_model')

(***************************************************************************)
(* C10: in the parallel outer loop, under every assignment of iterations   *)
(* to workers and every interleaving, a step writes i_sum only at the slot *)
(* of the iteration the writing worker runs, no step writes y, and the     *)
(* per-index sums and the returned value are those of the sequential       *)
(* execution i = 0..n-1.                                                   *)
(***************************************************************************)
C10_ParallelLoopRaceFree == [][C10_Step]_vars

\* two workers are both between the read and the write of line 83, each on
\* the last j of its own iteration
C10_Witness ==
    /\ pc = "prange" /\ len(y) = ParMaxLen /\ y[0] # y[1]
    /\ wk[1].stage = "store" /\ wk[2].stage = "store"
    /\ wk[1].i # wk[2].i
    /\ wk[1].j = len(y) - 1 /\ wk[2].j = len(y) - 1
    /\ \E k \in DOMAIN i_sum : i_sum[k] # 0

=============================================================================
